---- MODULE Spec2Model ----
(***************************************************************************)
(* State-machine model of the two backends of the repository:              *)
(*   - the authentication service (magic_link_routes.py, auth_routes.py):  *)
(*     magic-link request / verify, Google OAuth callback, JWT refresh and *)
(*     bearer authentication, over the users and magic_tokens tables;      *)
(*   - the task part of the enterprise API (task_views.py,                 *)
(*     task_serializers.py, models/task_models.py).                        *)
(* Requests of the authentication service are split at their database      *)
(* round trips (query, commit), so that requests served by different       *)
(* worker processes interleave (SpecConc); Spec has one worker process.     *)
(***************************************************************************)
EXTENDS Integers, Sequences, FiniteSets, TLC

VARIABLES
    users,          \* users table: sequence of rows, id = position
    magic_tokens,   \* magic_tokens table: sequence of rows, id = position
    jwts,           \* every JWT the service has signed so far
    now,            \* datetime.utcnow(), in minutes
    reqs,           \* per worker: the request it is serving and its locals
    resp,           \* what the step just taken sent: the HTTP response and
                    \* the address the magic link was mailed to, if any
    verify_ok,      \* history: per magic token, number of successful verifies
    pool,           \* number of worker processes of the deployment
    tasks,          \* enterprise API: the Task rows, id = position
    assignments,    \* enterprise API: per task, its TaskAssignment rows in
                    \* order of primary key
    issued,         \* enterprise API: number of refresh tokens signed so
                    \* far; a token is named by its jti, 1..issued
    blacklisted,    \* enterprise API: jti of the BlacklistedToken rows
    projects        \* enterprise API: the Project rows created through the
                    \* API with their ProjectMember rows, id = position

authvars == <<users, magic_tokens, jwts, reqs, verify_ok, pool>>

taskvars == <<tasks, assignments>>

apivars == <<issued, blacklisted, projects>>

vars == <<users, magic_tokens, jwts, now, reqs, resp, verify_ok, pool, tasks, assignments,
          issued, blacklisted, projects>>

----------------------------------------------------------------------------
(* Program constants *)

ACCESS_TOKEN_EXPIRE_MINUTES == 60
REFRESH_TOKEN_EXPIRE_DAYS == 30
MAGIC_LINK_EXPIRE_MINUTES == 15
MinutesPerDay == 1440

(* Bounds of the model *)

MaxTokens == 2
MaxDeactivated == 1
MaxJwts == 4
MaxClock == 30
TickMinutes == 15

Workers == {"w1", "w2"}

WorkerRank(w) == IF w = "w1" THEN 1 ELSE 2

NULL == "NULL"

(* Addresses a client can type; str.lower() on them is LowerOf. *)
Emails == {"alice@x.io", "Alice@x.io", "bob@x.io"}

\* str.lower() on the addresses above
LowerOf(e) == IF e = "Alice@x.io" THEN "alice@x.io" ELSE e

(* Google accounts: the userinfo claims Google returns for each subject. *)
GoogleSubs == {"g-alice", "g-bob"}

GoogleEmail(sub) == IF sub = "g-alice" THEN "Alice@x.io" ELSE "bob@x.io"

----------------------------------------------------------------------------
(* Tables *)

UserIds == 1..Len(users)
TokenIds == 1..Len(magic_tokens)

\* db.query(User).filter(User.email == email).first()
UserByEmail(email) ==
    LET S == {i \in UserIds : users[i].email = email}
    IN IF S = {} THEN 0 ELSE CHOOSE i \in S : \A j \in S : i <= j

\* db.query(User).filter(User.google_id == sub).first()
UserByGoogleId(sub) ==
    LET S == {i \in UserIds : users[i].google_id = sub}
    IN IF S = {} THEN 0 ELSE CHOOSE i \in S : \A j \in S : i <= j

\* db.query(MagicToken).filter(MagicToken.token == token).first()
TokenByValue(token) ==
    LET S == {i \in TokenIds : magic_tokens[i].token = token}
    IN IF S = {} THEN 0 ELSE CHOOSE i \in S : \A j \in S : i <= j

\* a users table without the unique index
EmailTakenNoIndex(email) == FALSE

\* the unique index on users.email: an INSERT of a second row with the same
\* email raises IntegrityError
EmailTaken(email) == \E i \in UserIds : users[i].email = email

\* secrets.token_urlsafe(32): 256 random bits, a value never issued before
generate_magic_token == Len(magic_tokens) + 1

----------------------------------------------------------------------------
(* JWTs *)

create_access_token(sub) ==
    [sub |-> sub, type |-> "access",
     exp |-> now + ACCESS_TOKEN_EXPIRE_MINUTES, signed |-> TRUE]

create_refresh_token(sub) ==
    [sub |-> sub, type |-> "refresh",
     exp |-> now + REFRESH_TOKEN_EXPIRE_DAYS * MinutesPerDay, signed |-> TRUE]

\* a token not signed with SECRET_KEY
ForgedJwts ==
    {[sub |-> 1, type |-> t, exp |-> REFRESH_TOKEN_EXPIRE_DAYS * MinutesPerDay * 2,
      signed |-> FALSE] : t \in {"access", "refresh"}}

\* jwt.decode: "invalid" (JWTError), "expired" (ExpiredSignatureError) or "ok"
JwtDecode(tok) ==
    IF ~tok.signed THEN "invalid"
    ELSE IF tok.exp < now THEN "expired"
    ELSE "ok"

----------------------------------------------------------------------------
(* Requests in flight and responses *)

Idle == [op |-> "none", pc |-> "idle", email |-> NULL, uid |-> 0, tok |-> 0,
         gsub |-> NULL]

NoResp == [op |-> "none", status |-> 0, detail |-> NULL, sub |-> 0, tok |-> 0,
           typ |-> NULL, mail |-> NULL, user |-> NULL]

Response(op, status, detail) ==
    [op |-> op, status |-> status, detail |-> detail, sub |-> 0, tok |-> 0,
     typ |-> NULL, mail |-> NULL, user |-> NULL]

IsIdle(w) == reqs[w].pc = "idle"

AllIdle == \A w \in Workers : IsIdle(w)

\* the worker processes that are running
Running == {w \in Workers : WorkerRank(w) <= pool}

\* a request goes to the first free worker process
Accepts(w) ==
    /\ w \in Running /\ IsIdle(w)
    /\ \A v \in Running : IsIdle(v) => WorkerRank(w) <= WorkerRank(v)

InFlight(op) == Cardinality({w \in Workers : reqs[w].op = op})

\* room for one more magic token, counting the requests already accepted
RoomForToken == Len(magic_tokens) + InFlight("request") < MaxTokens

\* room for one more pair of JWTs, counting the sign-ins already under way
RoomForJwts ==
    Cardinality(jwts) + 2 * (InFlight("verify") + InFlight("google")) + 2 <= MaxJwts

\* the access and refresh token of one AuthResponse
TokenPair(sub) == {create_access_token(sub), create_refresh_token(sub)}

AuthInit ==
    /\ users = <<>>
    /\ magic_tokens = <<>>
    /\ jwts = {}
    /\ now = 0
    /\ reqs = [w \in Workers |-> Idle]
    /\ resp = NoResp
    /\ verify_ok = <<>>
    /\ tasks = <<>>
    /\ assignments = <<>>
    /\ issued = 0
    /\ blacklisted = {}
    /\ projects = <<>>

----------------------------------------------------------------------------
(* POST /auth/magic/request *)

\* request_magic_link without the is_active check of lines 107-108
RequestMagicLinkFindAnyUser(w, e) ==
    /\ Accepts(w)
    /\ RoomForToken
    /\ LET email == LowerOf(e)
           u == UserByEmail(email)
       IN reqs' = [reqs EXCEPT ![w] =
                     [Idle EXCEPT !.op = "request",
                                  !.pc = IF u = 0 THEN "create" ELSE "invalidate",
                                  !.email = email, !.uid = u]]
    /\ resp' = NoResp
    /\ UNCHANGED <<users, magic_tokens, jwts, now, verify_ok, pool, taskvars, apivars>>

\* lines 96-101 and, for a user that exists, lines 107-108
RequestMagicLinkFind(w, e) ==
    /\ Accepts(w)
    /\ LET email == LowerOf(e)
           u == UserByEmail(email)
       IN IF u = 0
          THEN /\ RoomForToken
               /\ reqs' = [reqs EXCEPT ![w] =
                             [Idle EXCEPT !.op = "request", !.pc = "create",
                                          !.email = email]]
               /\ resp' = NoResp
          ELSE IF ~users[u].is_active
          THEN /\ resp' = [Response("request", 403, "User account is deactivated")
                             EXCEPT !.sub = u]
               /\ UNCHANGED reqs
          ELSE /\ RoomForToken
               /\ reqs' = [reqs EXCEPT ![w] =
                             [Idle EXCEPT !.op = "request", !.pc = "invalidate",
                                          !.email = email, !.uid = u]]
               /\ resp' = NoResp
    /\ UNCHANGED <<users, magic_tokens, jwts, now, verify_ok, pool, taskvars, apivars>>

\* lines 102-107: INSERT of the new user, commit, refresh
RequestMagicLinkCreate(w) ==
    /\ reqs[w].op = "request" /\ reqs[w].pc = "create"
    /\ IF EmailTaken(reqs[w].email)
       THEN /\ resp' = Response("request", 500, "IntegrityError")
            /\ reqs' = [reqs EXCEPT ![w] = Idle]
            /\ UNCHANGED users
       ELSE /\ users' = Append(users,
                   [email |-> reqs[w].email, google_id |-> NULL,
                    is_active |-> TRUE, email_verified |-> FALSE])
            /\ reqs' = [reqs EXCEPT ![w].pc = "invalidate",
                                    ![w].uid = Len(users) + 1]
            /\ resp' = NoResp
    /\ UNCHANGED <<magic_tokens, jwts, now, verify_ok, pool, taskvars, apivars>>

\* InvalidateTokens that updates no row
InvalidateTokensNoRows(uid) == magic_tokens

\* lines 110-114: UPDATE magic_tokens SET used WHERE user_id AND NOT used
InvalidateTokens(uid) ==
    [i \in TokenIds |->
        IF magic_tokens[i].user_id = uid /\ ~magic_tokens[i].used
        THEN [magic_tokens[i] EXCEPT !.used = TRUE]
        ELSE magic_tokens[i]]

RequestMagicLinkInvalidate(w) ==
    /\ reqs[w].op = "request" /\ reqs[w].pc = "invalidate"
    /\ magic_tokens' = InvalidateTokens(reqs[w].uid)
    /\ reqs' = [reqs EXCEPT ![w].pc = "store"]
    /\ resp' = NoResp
    /\ UNCHANGED <<users, jwts, now, verify_ok, pool, taskvars, apivars>>

\* line 118
MagicTokenExpiry == now + MAGIC_LINK_EXPIRE_MINUTES

\* lines 116-136: INSERT of the new token, then the email; sent is what
\* send_magic_link_email returns (FALSE also stands for its exceptions)
RequestMagicLinkStore(w, sent) ==
    /\ reqs[w].op = "request" /\ reqs[w].pc = "store"
    /\ LET token == generate_magic_token
       IN /\ magic_tokens' = Append(magic_tokens,
                 [token |-> token, user_id |-> reqs[w].uid,
                  expires_at |-> MagicTokenExpiry, used |-> FALSE])
          /\ verify_ok' = Append(verify_ok, 0)
          /\ resp' = IF sent
                      THEN [Response("request", 200, "Magic link sent")
                              EXCEPT !.tok = token, !.sub = reqs[w].uid,
                                     !.mail = reqs[w].email]
                      ELSE [Response("request", 500, "Email service error")
                              EXCEPT !.tok = token, !.sub = reqs[w].uid]
    /\ reqs' = [reqs EXCEPT ![w] = Idle]
    /\ UNCHANGED <<users, jwts, now, pool, taskvars, apivars>>

----------------------------------------------------------------------------
(* POST /auth/magic/verify *)

\* VerifyRejects without the check of the used flag
VerifyRejectsIgnoringUsed(t) ==
    IF t = 0 THEN "Invalid or expired magic link"
    ELSE IF magic_tokens[t].expires_at < now THEN "Magic link has expired"
    ELSE NULL

\* VerifyRejects without the check of the expiry
VerifyRejectsIgnoringExpiry(t) ==
    IF t = 0 THEN "Invalid or expired magic link"
    ELSE IF magic_tokens[t].used THEN "Magic link has already been used"
    ELSE NULL

\* lines 150-157: NULL when the token row passes the checks, else the detail
\* of the HTTP 400
VerifyRejects(t) ==
    IF t = 0 THEN "Invalid or expired magic link"
    ELSE IF magic_tokens[t].used THEN "Magic link has already been used"
    ELSE IF magic_tokens[t].expires_at < now THEN "Magic link has expired"
    ELSE NULL

\* lines 144-157: the SELECT of the token row and the checks on it
VerifyMagicLinkCheck(w, token) ==
    /\ Accepts(w)
    /\ LET t == TokenByValue(token)
           why == VerifyRejects(t)
       IN IF why # NULL
          THEN /\ resp' = [Response("verify", 400, why) EXCEPT !.tok = token]
               /\ UNCHANGED reqs
          ELSE /\ RoomForJwts
               /\ reqs' = [reqs EXCEPT ![w] =
                             [Idle EXCEPT !.op = "verify", !.pc = "commit",
                                          !.tok = t]]
               /\ resp' = NoResp
    /\ UNCHANGED <<users, magic_tokens, jwts, now, verify_ok, pool, taskvars, apivars>>

\* VerifySubject naming the first user instead of the owner
VerifySubjectFirstUser(t) == 1

\* line 171: the subject of the tokens is the id of magic_token.user
VerifySubject(t) == magic_tokens[t].user_id

\* lines 159-180: UPDATE of the token and of its user, commit, the JWTs
VerifyMagicLinkCommit(w) ==
    /\ reqs[w].op = "verify" /\ reqs[w].pc = "commit"
    /\ LET t == reqs[w].tok
           u == magic_tokens[t].user_id
       IN /\ magic_tokens' = [magic_tokens EXCEPT ![t].used = TRUE]
          /\ users' = [users EXCEPT ![u].email_verified = TRUE]
          /\ jwts' = jwts \cup TokenPair(VerifySubject(t))
          /\ resp' = [Response("verify", 200, "bearer")
                        EXCEPT !.tok = magic_tokens[t].token,
                               !.sub = VerifySubject(t)]
          /\ verify_ok' = [verify_ok EXCEPT ![t] = @ + 1]
    /\ reqs' = [reqs EXCEPT ![w] = Idle]
    /\ UNCHANGED <<now, pool, taskvars, apivars>>

----------------------------------------------------------------------------
(* GET /auth/google/callback *)

\* lines 102-137: the two SELECTs, the branch taken and the is_active check
GoogleCallbackFind(w, gsub) ==
    /\ Accepts(w)
    /\ LET byId == UserByGoogleId(gsub)
           byEmail == UserByEmail(GoogleEmail(gsub))
           u == IF byId # 0 THEN byId ELSE byEmail
           branch == IF byId # 0 THEN "g_update"
                     ELSE IF byEmail # 0 THEN "g_link" ELSE "g_create"
       IN IF u # 0 /\ ~users[u].is_active
          THEN /\ resp' = Response("google", 302, "User account is deactivated")
               /\ UNCHANGED reqs
          ELSE /\ RoomForJwts
               /\ reqs' = [reqs EXCEPT ![w] =
                             [Idle EXCEPT !.op = "google", !.pc = branch,
                                          !.email = GoogleEmail(gsub),
                                          !.uid = u, !.gsub = gsub]]
               /\ resp' = NoResp
    /\ UNCHANGED <<users, magic_tokens, jwts, now, verify_ok, pool, taskvars, apivars>>

\* lines 94-100: the code exchange fails or returns no userinfo
GoogleCallbackNoUserInfo(w) ==
    /\ Accepts(w)
    /\ resp' = Response("google", 302, "Failed to get user info from Google")
    /\ UNCHANGED <<users, magic_tokens, jwts, now, reqs, verify_ok, pool, taskvars, apivars>>

\* lines 109-132 and 139-153: the pending INSERT or UPDATE, commit, the JWTs
GoogleCallbackCommit(w) ==
    /\ reqs[w].op = "google"
    /\ LET r == reqs[w]
       IN IF r.pc = "g_create" /\ EmailTaken(r.email)
          THEN /\ resp' = Response("google", 302, "Authentication failed")
               /\ UNCHANGED <<users, jwts>>
          ELSE LET sub == IF r.pc = "g_create" THEN Len(users) + 1 ELSE r.uid
               IN /\ users' =
                        IF r.pc = "g_create"
                        THEN Append(users,
                                [email |-> r.email, google_id |-> r.gsub,
                                 is_active |-> TRUE, email_verified |-> TRUE])
                        ELSE IF r.pc = "g_link"
                        THEN [users EXCEPT ![r.uid].google_id = r.gsub,
                                           ![r.uid].email_verified = TRUE]
                        ELSE [users EXCEPT ![r.uid].email_verified = TRUE]
                  /\ jwts' = jwts \cup TokenPair(sub)
                  /\ resp' = [Response("google", 302, r.pc) EXCEPT !.sub = sub]
    /\ reqs' = [reqs EXCEPT ![w] = Idle]
    /\ UNCHANGED <<magic_tokens, now, verify_ok, pool, taskvars, apivars>>

----------------------------------------------------------------------------
(* Bearer authentication and POST /auth/.../refresh *)

\* the JWTs a client can present: those issued, and forged ones
Presentable == jwts \cup ForgedJwts

\* get_current_user lines 63-87 and refresh_access_token lines 190-222 share
\* this decision; want is the type the endpoint requires
JwtOutcome(tok, want) ==
    IF JwtDecode(tok) = "invalid" THEN [status |-> 401, detail |-> "Invalid token"]
    ELSE IF JwtDecode(tok) = "expired"
    THEN [status |-> 401, detail |-> "Token has expired"]
    ELSE IF tok.type # want THEN [status |-> 401, detail |-> "Invalid token type"]
    ELSE IF tok.sub \notin UserIds THEN [status |-> 404, detail |-> "User not found"]
    ELSE IF ~users[tok.sub].is_active
    THEN [status |-> 403, detail |-> "User account is deactivated"]
    ELSE [status |-> 200, detail |-> "ok"]

\* get_current_user without the check of the type claim
get_current_user_any_type(tok) == JwtOutcome(tok, tok.type)

get_current_user(tok) == JwtOutcome(tok, "access")

\* GET /auth/magic/me and /auth/google/me
GetMe(w, tok) ==
    /\ Accepts(w)
    /\ LET out == get_current_user(tok)
       IN resp' = [Response("me", out.status, out.detail)
                     EXCEPT !.typ = tok.type,
                            !.sub = IF out.status = 200 THEN tok.sub ELSE 0]
    /\ UNCHANGED <<users, magic_tokens, jwts, now, reqs, verify_ok, pool, taskvars, apivars>>

RefreshOutcome(tok) == JwtOutcome(tok, "refresh")

\* POST /auth/magic/refresh and /auth/google/refresh
RefreshAccessToken(w, tok) ==
    /\ Accepts(w)
    /\ LET out == RefreshOutcome(tok)
       IN /\ out.status = 200 => RoomForJwts
          /\ resp' = [Response("refresh", out.status, out.detail)
                        EXCEPT !.typ = tok.type,
                               !.sub = IF out.status = 200 THEN tok.sub ELSE 0]
          /\ jwts' = IF out.status = 200 THEN jwts \cup TokenPair(tok.sub) ELSE jwts
    /\ UNCHANGED <<users, magic_tokens, now, reqs, verify_ok, pool, taskvars, apivars>>

----------------------------------------------------------------------------
(* Environment *)

Tick ==
    /\ now + TickMinutes <= MaxClock
    /\ now' = now + TickMinutes
    /\ resp' = NoResp
    /\ UNCHANGED <<users, magic_tokens, jwts, reqs, verify_ok, pool, taskvars, apivars>>

\* an operator clears users.is_active
Deactivate(u) ==
    /\ u \in UserIds
    /\ users[u].is_active
    /\ Cardinality({i \in UserIds : ~users[i].is_active}) < MaxDeactivated
    /\ users' = [users EXCEPT ![u].is_active = FALSE]
    /\ resp' = NoResp
    /\ UNCHANGED <<magic_tokens, jwts, now, reqs, verify_ok, pool, taskvars, apivars>>

\* the token of every link sent so far, and one that was never issued
TokenValues == 1..(Len(magic_tokens) + 1)

Begin(w) ==
    \/ \E e \in Emails : RequestMagicLinkFind(w, e)
    \/ \E token \in TokenValues : VerifyMagicLinkCheck(w, token)
    \/ \E gsub \in GoogleSubs : GoogleCallbackFind(w, gsub)
    \/ GoogleCallbackNoUserInfo(w)
    \/ \E tok \in Presentable : GetMe(w, tok)
    \/ \E tok \in Presentable : RefreshAccessToken(w, tok)

Step(w) ==
    \/ RequestMagicLinkCreate(w)
    \/ RequestMagicLinkInvalidate(w)
    \/ \E sent \in BOOLEAN : RequestMagicLinkStore(w, sent)
    \/ VerifyMagicLinkCommit(w)
    \/ GoogleCallbackCommit(w)

Env ==
    \/ Tick
    \/ \E u \in UserIds : Deactivate(u)

Next ==
    \/ \E w \in Workers : Begin(w)
    \/ \E w \in Workers : Step(w)
    \/ Env

\* uvicorn.run("main:app", ...): one worker process, one request at a time
Init == AuthInit /\ pool = 1

Spec == Init /\ [][Next]_vars

\* several worker processes over one database: requests interleave at their
\* database round trips (the clock and the operator stand still)
InitConc == AuthInit /\ pool = 2

NextConc ==
    \/ \E w \in Workers : Begin(w)
    \/ \E w \in Workers : Step(w)

SpecConc == InitConc /\ [][NextConc]_vars

----------------------------------------------------------------------------
(* Enterprise API: tasks of one project (task_views.py TaskViewSet) *)

MaxTasks == 1

\* the accounts of the deployment: two members of the project, a user who is
\* not a member, and a staff user who is not a member
DjangoUsers == {"ann", "ben", "cat", "sam"}
ProjectMembers == {"ann", "ben"}
StaffUsers == {"sam"}
Anonymous == "anonymous"
Requesters == DjangoUsers \cup {Anonymous}

\* user_id values a client can send: the accounts, none, and an unknown id
Missing == "missing"
UserIdInputs == DjangoUsers \cup {Missing, "nobody"}

\* TaskStatus.choices
TaskStatus == {"todo", "in_progress", "in_review", "done", "blocked"}

\* a JSON array sent as status: request.data.get('status') is then a list
JsonArray == "[done]"

\* a value that can be looked up in a dict
Hashable(v) == v # JsonArray

\* status values a client can send: the choices, none, an unknown string and
\* a JSON array
StatusInputs == TaskStatus \cup {Missing, "archived", JsonArray}

DONE == "done"

\* a nullable timestamp: <<>> is None
None == <<>>

TaskIds == 1..Len(tasks)

\* Task.save without the branch that clears completed_at
TaskSaveNeverClears(task) ==
    IF task.status = DONE /\ task.completed_at = None
    THEN [task EXCEPT !.completed_at = <<now>>]
    ELSE task

\* Task.save, lines 144-150: the row as it is written
TaskSave(task) ==
    IF task.status = DONE /\ task.completed_at = None
    THEN [task EXCEPT !.completed_at = <<now>>]
    ELSE IF task.status # DONE /\ task.completed_at # None
    THEN [task EXCEPT !.completed_at = None]
    ELSE task

\* TaskSerializer.update, lines 101-117: data is the validated status, or
\* Missing when the payload has none
TaskSerializerUpdate(task, data) ==
    IF data = Missing THEN TaskSave(task)
    ELSE LET stamped ==
               IF data = DONE /\ task.status # DONE
               THEN [task EXCEPT !.completed_at = <<now>>]
               ELSE IF task.status = DONE /\ data # DONE
               THEN [task EXCEPT !.completed_at = None]
               ELSE task
         IN TaskSave([stamped EXCEPT !.status = data])

\* get_queryset lines 75-81 and get_object: the task, when the requester may
\* see it
\* a row removed by DELETE
Deleted == [status |-> "deleted", completed_at |-> None, created_by |-> NULL]

Visible(r, t) ==
    /\ t \in TaskIds
    /\ tasks[t] # Deleted
    /\ (r \in StaffUsers \/ r \in ProjectMembers)

TaskResponse(op, status, r, t) ==
    [Response(op, status, NULL) EXCEPT !.mail = r, !.tok = t]

\* POST tasks/ : get_permissions line 97, TaskCreateSerializer, Task.save
TaskCreate(r, st) ==
    /\ IF r = Anonymous
       THEN /\ resp' = TaskResponse("create", 401, r, 0)
            /\ UNCHANGED taskvars
       ELSE IF r \notin ProjectMembers
       THEN /\ resp' = TaskResponse("create", 403, r, 0)
            /\ UNCHANGED taskvars
       ELSE IF st \notin TaskStatus \cup {Missing}
       THEN /\ resp' = TaskResponse("create", 400, r, 0)
            /\ UNCHANGED taskvars
       ELSE /\ Len(tasks) < MaxTasks
            /\ tasks' = Append(tasks,
                   TaskSave([status |-> IF st = Missing THEN "todo" ELSE st,
                             completed_at |-> None, created_by |-> r]))
            /\ assignments' = Append(assignments, <<>>)
            /\ resp' = TaskResponse("create", 201, r, Len(tasks) + 1)
    /\ UNCHANGED <<authvars, apivars, now>>

\* serializer.save() of a TaskSerializer bound to task t with a valid payload
TaskUpdate(t, data) ==
    /\ t \in TaskIds
    /\ tasks' = [tasks EXCEPT ![t] = TaskSerializerUpdate(tasks[t], data)]
    /\ resp' = [TaskResponse("update", 200, NULL, t) EXCEPT !.typ = tasks[t].status]
    /\ UNCHANGED <<authvars, apivars, now, assignments>>

\* POST tasks/<t>/change-status/ , lines 113-137
ChangeStatus(r, t, new_status) ==
    /\ IF r = Anonymous
       THEN /\ resp' = TaskResponse("change_status", 401, r, t)
            /\ UNCHANGED tasks
       ELSE IF ~Visible(r, t)
       THEN /\ resp' = TaskResponse("change_status", 404, r, t)
            /\ UNCHANGED tasks
       ELSE IF new_status = Missing
       THEN /\ resp' = [TaskResponse("change_status", 400, r, t)
                          EXCEPT !.detail = new_status]
            /\ UNCHANGED tasks
       ELSE IF ~Hashable(new_status)
       THEN \* line 127: new_status not in dict(...) raises TypeError
            /\ resp' = [TaskResponse("change_status", 500, r, t)
                          EXCEPT !.detail = new_status]
            /\ UNCHANGED tasks
       ELSE IF new_status \notin TaskStatus
       THEN /\ resp' = [TaskResponse("change_status", 400, r, t)
                          EXCEPT !.detail = new_status]
            /\ UNCHANGED tasks
       ELSE /\ tasks' = [tasks EXCEPT ![t] = TaskSave([@ EXCEPT !.status = new_status])]
            /\ resp' = [TaskResponse("change_status", 200, r, t)
                          EXCEPT !.typ = tasks[t].status, !.detail = new_status]
    /\ UNCHANGED <<authvars, apivars, now, assignments>>

\* the assignment rows of task t, in primary-key order
AssigneesOf(t) == {assignments[t][i].assignee : i \in 1..Len(assignments[t])}

RowOf(t, u) == CHOOSE i \in 1..Len(assignments[t]) : assignments[t][i].assignee = u

RECURSIVE WithoutRow(_, _)
WithoutRow(rows, i) ==
    IF rows = <<>> THEN <<>>
    ELSE IF i = 1 THEN Tail(rows)
    ELSE <<Head(rows)>> \o WithoutRow(Tail(rows), i - 1)

\* TaskAssignment.save, lines 50-54: a row without a pk that is the task's
\* first becomes the lead
TaskAssignmentSave(rows, row) ==
    Append(rows, IF rows = <<>> THEN [row EXCEPT !.is_lead = TRUE] ELSE row)

\* update_or_create that always inserts a row
AlwaysCreate(rows, u, is_lead) ==
    Append(rows, [assignee |-> u, is_lead |-> is_lead])

\* update_or_create that stores is_lead as sent, with neither
\* TaskAssignment.save nor lines 177-179 making the first row the lead
UpdateOrCreateAsSent(rows, u, is_lead) ==
    IF \E i \in 1..Len(rows) : rows[i].assignee = u
    THEN [i \in 1..Len(rows) |->
            IF rows[i].assignee = u THEN [rows[i] EXCEPT !.is_lead = is_lead]
            ELSE rows[i]]
    ELSE Append(rows, [assignee |-> u, is_lead |-> is_lead])

\* TaskAssignment.objects.update_or_create(task, assignee, defaults), lines
\* 170-174, and the first-assignment branch of lines 177-179
UpdateOrCreate(rows, u, is_lead) ==
    IF \E i \in 1..Len(rows) : rows[i].assignee = u
    THEN [i \in 1..Len(rows) |->
            IF rows[i].assignee = u THEN [rows[i] EXCEPT !.is_lead = is_lead]
            ELSE rows[i]]
    ELSE LET saved == TaskAssignmentSave(rows, [assignee |-> u, is_lead |-> is_lead])
         IN IF rows = <<>>
            THEN [saved EXCEPT ![Len(saved)].is_lead = TRUE]
            ELSE saved

\* assign_task without the membership check of lines 163-167
IsMemberAlways(t, user_id) == TRUE

\* line 163: the user is a member of the task's project
IsMemberOfTaskProject(t, user_id) == user_id \in ProjectMembers

\* POST tasks/<t>/assign/ , lines 139-182
AssignTask(r, t, user_id, is_lead) ==
    /\ IF r = Anonymous
       THEN /\ resp' = [TaskResponse("assign", 401, r, t) EXCEPT !.user = user_id]
            /\ UNCHANGED assignments
       ELSE IF ~Visible(r, t)
       THEN /\ resp' = [TaskResponse("assign", 404, r, t) EXCEPT !.user = user_id]
            /\ UNCHANGED assignments
       ELSE IF user_id = Missing
       THEN /\ resp' = [TaskResponse("assign", 400, r, t) EXCEPT !.user = user_id]
            /\ UNCHANGED assignments
       ELSE IF user_id \notin DjangoUsers
       THEN /\ resp' = [TaskResponse("assign", 404, r, t) EXCEPT !.user = user_id]
            /\ UNCHANGED assignments
       ELSE IF ~IsMemberOfTaskProject(t, user_id)
       THEN /\ resp' = [TaskResponse("assign", 400, r, t) EXCEPT !.user = user_id]
            /\ UNCHANGED assignments
       ELSE /\ assignments' = [assignments EXCEPT
                                 ![t] = UpdateOrCreate(@, user_id, is_lead)]
            /\ resp' = [TaskResponse("assign", 200, r, t)
                          EXCEPT !.user = user_id, !.detail = IF is_lead THEN "is_lead" ELSE "not_lead"]
    /\ UNCHANGED <<authvars, apivars, now, tasks>>

\* unassign_task without the promotion of lines 203-207
UnassignedNoPromotion(rows, i) == WithoutRow(rows, i)

\* the rows after lines 199-207: the row is deleted; when it was the lead the
\* prefetched rows, which still hold it, are non-empty, and the first
\* remaining row by pk is made the lead
Unassigned(rows, i) ==
    LET rest == WithoutRow(rows, i)
    IN IF rows[i].is_lead /\ rest # <<>>
       THEN [rest EXCEPT ![1].is_lead = TRUE]
       ELSE rest

\* POST tasks/<t>/unassign/ , lines 184-216
UnassignTask(r, t, user_id) ==
    /\ IF r = Anonymous
       THEN /\ resp' = [TaskResponse("unassign", 401, r, t) EXCEPT !.user = user_id]
            /\ UNCHANGED assignments
       ELSE IF ~Visible(r, t)
       THEN /\ resp' = [TaskResponse("unassign", 404, r, t) EXCEPT !.user = user_id]
            /\ UNCHANGED assignments
       ELSE IF user_id = Missing
       THEN /\ resp' = [TaskResponse("unassign", 400, r, t) EXCEPT !.user = user_id]
            /\ UNCHANGED assignments
       ELSE IF user_id \notin AssigneesOf(t)
       THEN /\ resp' = [TaskResponse("unassign", 400, r, t) EXCEPT !.user = user_id]
            /\ UNCHANGED assignments
       ELSE LET i == RowOf(t, user_id)
                rows == assignments[t]
            IN /\ assignments' = [assignments EXCEPT ![t] = Unassigned(rows, i)]
               /\ resp' = [TaskResponse("unassign",
                              IF rows[i].is_lead /\ Len(rows) = 1 THEN 500 ELSE 200,
                              r, t)
                             EXCEPT !.user = user_id,
                                    !.typ = IF rows[i].is_lead THEN "was_lead"
                                            ELSE "was_not_lead"]
    /\ UNCHANGED <<authvars, apivars, now, tasks>>

\* set_lead_assignee without the update of line 233
ClearLeadsNothing(rows) == rows

\* line 233: task.assignments.update(is_lead=False)
ClearLeads(rows) == [i \in 1..Len(rows) |-> [rows[i] EXCEPT !.is_lead = FALSE]]

\* POST tasks/<t>/set-lead/ , lines 218-247
SetLeadAssignee(r, t, user_id) ==
    /\ IF r = Anonymous
       THEN /\ resp' = TaskResponse("set_lead", 401, r, t)
            /\ UNCHANGED assignments
       ELSE IF ~Visible(r, t)
       THEN /\ resp' = TaskResponse("set_lead", 404, r, t)
            /\ UNCHANGED assignments
       ELSE IF user_id = Missing
       THEN /\ resp' = TaskResponse("set_lead", 400, r, t)
            /\ UNCHANGED assignments
       ELSE LET cleared == ClearLeads(assignments[t])
            IN IF user_id \notin AssigneesOf(t)
               THEN /\ assignments' = [assignments EXCEPT ![t] = cleared]
                    /\ resp' = [TaskResponse("set_lead", 400, r, t)
                                  EXCEPT !.user = user_id]
               ELSE /\ assignments' = [assignments EXCEPT ![t] =
                           [cleared EXCEPT ![RowOf(t, user_id)].is_lead = TRUE]]
                    /\ resp' = [TaskResponse("set_lead", 200, r, t)
                                  EXCEPT !.user = user_id]
    /\ UNCHANGED <<authvars, apivars, now, tasks>>

\* IsTaskAssigneeOrCreator.has_object_permission for PUT, PATCH and DELETE,
\* permissions.py 69-75: obj.assignee is read first, and Task defines no
\* attribute of that name (task_models.py 57-150), so the read raises
IsTaskAssigneeOrCreator(r, t) == "AttributeError"

\* IsStaffUser.has_permission, permissions.py 32-33
IsStaffUser(r) == r \in StaffUsers

\* IsTaskAssigneeOrCreator | IsStaffUser on the object, task_views.py 100: the
\* left operand is evaluated first
MayUpdateOrDestroy(r, t) ==
    LET left == IsTaskAssigneeOrCreator(r, t)
    IN IF left = "AttributeError" THEN "error"
       ELSE IF left = "True" \/ IsStaffUser(r) THEN "allow"
       ELSE "deny"

\* PUT / PATCH tasks/<t>/ : get_permissions 98-100, get_object,
\* TaskSerializer.update; data is the status of the payload, or Missing
PartialUpdate(r, t, data) ==
    /\ IF r = Anonymous
       THEN /\ resp' = TaskResponse("partial_update", 401, r, t)
            /\ UNCHANGED tasks
       ELSE IF ~Visible(r, t)
       THEN /\ resp' = TaskResponse("partial_update", 404, r, t)
            /\ UNCHANGED tasks
       ELSE IF MayUpdateOrDestroy(r, t) = "error"
       THEN /\ resp' = TaskResponse("partial_update", 500, r, t)
            /\ UNCHANGED tasks
       ELSE IF MayUpdateOrDestroy(r, t) = "deny"
       THEN /\ resp' = TaskResponse("partial_update", 403, r, t)
            /\ UNCHANGED tasks
       ELSE /\ tasks' = [tasks EXCEPT ![t] = TaskSerializerUpdate(@, data)]
            /\ resp' = [TaskResponse("partial_update", 200, r, t)
                          EXCEPT !.typ = tasks[t].status]
    /\ UNCHANGED <<authvars, apivars, now, assignments>>

\* DELETE tasks/<t>/ : get_permissions 98-100, get_object, instance.delete()
Destroy(r, t) ==
    /\ IF r = Anonymous
       THEN /\ resp' = TaskResponse("destroy", 401, r, t)
            /\ UNCHANGED taskvars
       ELSE IF ~Visible(r, t)
       THEN /\ resp' = TaskResponse("destroy", 404, r, t)
            /\ UNCHANGED taskvars
       ELSE IF MayUpdateOrDestroy(r, t) = "error"
       THEN /\ resp' = TaskResponse("destroy", 500, r, t)
            /\ UNCHANGED taskvars
       ELSE IF MayUpdateOrDestroy(r, t) = "deny"
       THEN /\ resp' = TaskResponse("destroy", 403, r, t)
            /\ UNCHANGED taskvars
       ELSE /\ tasks' = [tasks EXCEPT ![t] = Deleted]
            /\ assignments' = [assignments EXCEPT ![t] = <<>>]
            /\ resp' = TaskResponse("destroy", 204, r, t)
    /\ UNCHANGED <<authvars, apivars, now>>

\* the tasks get_queryset returns to r, lines 75-81
VisibleTasks(r) == {t \in TaskIds : Visible(r, t)}

\* GET tasks/ : get_permissions 101-103 (IsAuthenticated alone), get_queryset;
\* the response carries the number of tasks listed
ListTasks(r) ==
    /\ resp' = IF r = Anonymous
               THEN TaskResponse("list", 401, r, 0)
               ELSE TaskResponse("list", 200, r, Cardinality(VisibleTasks(r)))
    /\ UNCHANGED <<authvars, apivars, now, taskvars>>

TaskTargets == 1..MaxTasks

NextTask ==
    \/ \E r \in Requesters, st \in StatusInputs : TaskCreate(r, st)
    \/ \E t \in TaskTargets, data \in TaskStatus \cup {Missing} : TaskUpdate(t, data)
    \/ \E r \in Requesters, t \in TaskTargets, st \in StatusInputs :
          ChangeStatus(r, t, st)
    \/ \E r \in Requesters, t \in TaskTargets, u \in UserIdInputs, is_lead \in BOOLEAN :
          AssignTask(r, t, u, is_lead)
    \/ \E r \in Requesters, t \in TaskTargets, u \in UserIdInputs : UnassignTask(r, t, u)
    \/ \E r \in Requesters, t \in TaskTargets, u \in UserIdInputs : SetLeadAssignee(r, t, u)
    \/ \E r \in Requesters, t \in TaskTargets, data \in TaskStatus \cup {Missing} :
          PartialUpdate(r, t, data)
    \/ \E r \in Requesters, t \in TaskTargets : Destroy(r, t)
    \/ \E r \in Requesters : ListTasks(r)
    \/ Tick

SpecTask == Init /\ [][NextTask]_vars

\* the handlers that write the tasks table; the assignment handlers leave it
\* unchanged
NextStatus ==
    \/ \E r \in Requesters, st \in StatusInputs : TaskCreate(r, st)
    \/ \E t \in TaskTargets, data \in TaskStatus \cup {Missing} : TaskUpdate(t, data)
    \/ \E r \in Requesters, t \in TaskTargets, st \in StatusInputs :
          ChangeStatus(r, t, st)
    \/ Tick

SpecStatus == Init /\ [][NextStatus]_vars

----------------------------------------------------------------------------
(* Enterprise API: login, logout and token refresh (views.py, urls.py) *)

MaxRefresh == 3

\* rest_framework_simplejwt.token_blacklist is among the installed apps
BlacklistAppInstalled == TRUE

\* what a client can send as refresh token: nothing (0), a refresh token the
\* service has signed (its jti), or a string that is no token of the service
RefreshInputs == 0..(issued + 1)

\* RefreshToken(raw): the token verifies (it is one of the service's and, with
\* the blacklist app, its jti is not blacklisted); TokenError otherwise
RefreshTokenVerifies(raw) ==
    /\ raw \in 1..issued
    /\ BlacklistAppInstalled => raw \notin blacklisted

\* token.blacklist() that records nothing
BlacklistNothing(raw) == blacklisted

\* token.blacklist(), views.py 148: a BlacklistedToken row for the jti
Blacklist(raw) == blacklisted \cup {raw}

SessionResponse(op, status, raw) ==
    [Response(op, status, NULL) EXCEPT !.tok = raw]

\* POST auth/login/ , views.py 86-125: valid says whether LoginSerializer
\* accepts the credentials
Login(u, valid) ==
    /\ IF valid
       THEN /\ issued < MaxRefresh
            /\ issued' = issued + 1
            /\ resp' = [SessionResponse("login", 200, 0)
                          EXCEPT !.sub = issued + 1, !.mail = u]
       ELSE /\ resp' = [SessionResponse("login", 400, 0) EXCEPT !.mail = u]
            /\ UNCHANGED issued
    /\ UNCHANGED <<authvars, taskvars, now, blacklisted, projects>>

\* POST auth/logout/ , views.py 128-180
Logout(raw) ==
    /\ IF raw = 0
       THEN /\ resp' = SessionResponse("logout", 400, raw)
            /\ UNCHANGED blacklisted
       ELSE IF ~RefreshTokenVerifies(raw)
       THEN /\ resp' = SessionResponse("logout", 400, raw)
            /\ UNCHANGED blacklisted
       ELSE IF ~BlacklistAppInstalled
       THEN /\ resp' = SessionResponse("logout", 400, raw)
            /\ UNCHANGED blacklisted
       ELSE /\ blacklisted' = Blacklist(raw)
            /\ resp' = SessionResponse("logout", 205, raw)
    /\ UNCHANGED <<authvars, taskvars, now, issued, projects>>

\* POST auth/refresh/ , urls.py 33 (TokenRefreshView); rotate is the
\* ROTATE_REFRESH_TOKENS / BLACKLIST_AFTER_ROTATION setting, under which the
\* presented token is blacklisted and a new refresh token is returned
TokenRefresh(raw, rotate) ==
    /\ IF raw = 0
       THEN /\ resp' = SessionResponse("token_refresh", 400, raw)
            /\ UNCHANGED <<issued, blacklisted>>
       ELSE IF ~RefreshTokenVerifies(raw)
       THEN /\ resp' = SessionResponse("token_refresh", 401, raw)
            /\ UNCHANGED <<issued, blacklisted>>
       ELSE IF rotate
       THEN /\ issued < MaxRefresh
            /\ issued' = issued + 1
            /\ blacklisted' = IF BlacklistAppInstalled
                              THEN blacklisted \cup {raw} ELSE blacklisted
            /\ resp' = [SessionResponse("token_refresh", 200, raw)
                          EXCEPT !.sub = issued + 1]
       ELSE /\ resp' = SessionResponse("token_refresh", 200, raw)
            /\ UNCHANGED <<issued, blacklisted>>
    /\ UNCHANGED <<authvars, taskvars, now, projects>>

NextSession ==
    \/ \E u \in DjangoUsers, valid \in BOOLEAN : Login(u, valid)
    \/ \E raw \in RefreshInputs : Logout(raw)
    \/ \E raw \in RefreshInputs, rotate \in BOOLEAN : TokenRefresh(raw, rotate)

SpecSession == Init /\ [][NextSession]_vars

----------------------------------------------------------------------------
(* Enterprise API: projects, views.py ProjectViewSet *)

\* projects the service may hold
MaxProjects == 2

\* Role.ROLE_CHOICES names held by the profiles of the accounts; NULL is an
\* account without a profile or with profile.role unset
ProfileRole(u) ==
    CASE u = "ann" -> "operations_lead"
      [] u = "ben" -> "operations_manager"
      [] u = "cat" -> "viewer"
      [] OTHER -> NULL

SAFE_METHODS == {"GET", "HEAD", "OPTIONS"}

\* a permission class that lets every request through
IsOperationsLeadOrStaffAny(r, method) == TRUE

\* IsOperationsLeadOrStaff.has_permission, permissions.py 10-23
IsOperationsLeadOrStaff(r, method) ==
    IF method \in SAFE_METHODS THEN TRUE
    ELSE IF r \in StaffUsers THEN TRUE
    ELSE IF ProfileRole(r) # NULL THEN ProfileRole(r) = "operations_lead"
    ELSE FALSE

\* project keys a client can send, as (prefix, number)
KeyInputs == {[prefix |-> "PRJ-", n |-> 1], [prefix |-> "PRJ-", n |-> 2],
              [prefix |-> "PRJ-", n |-> 3], [prefix |-> "OPS-", n |-> 1]}

\* ProjectSerializer.validate_key, serializers.py 115-119
ValidKey(key) == key.prefix = "PRJ-"

\* owner_id values a client can send (required, serializers.py 94-98)
OwnerInputs == {"ann", Missing}

\* members a client can send with a project: none, or one ProjectMember, with
\* a role or without (role has a model default, so the field is optional and
\* is then absent from validated_data)
MembersInputs ==
    {<<>>, <<[user |-> "ann", role |-> "member"]>>,
     <<[user |-> "ben", role |-> "admin"]>>,
     <<[user |-> "ben", role |-> Missing]>>}

ProjectIds == 1..Len(projects)

MemberUsers(rows) == {rows[i].user : i \in 1..Len(rows)}

\* project.members.add(user, through_defaults={'role': role}): a user who is
\* already a member gets no second row
MembersAdd(rows, u, ro) ==
    IF u \in MemberUsers(rows) THEN rows
    ELSE Append(rows, [user |-> u, role |-> ro])

RECURSIVE MembersAddAll(_, _)
MembersAddAll(rows, members_data) ==
    IF members_data = <<>> THEN rows
    ELSE MembersAddAll(MembersAdd(rows, Head(members_data).user,
                                  Head(members_data).role),
                       Tail(members_data))

\* member_data['role'] raises KeyError for some member sent
RoleKeyError(members_data) ==
    \E i \in 1..Len(members_data) : members_data[i].role = Missing

\* the role the members sent give to user u, NULL when they do not name u
SubmittedRole(members_data, u) ==
    IF u \in MemberUsers(members_data)
    THEN members_data[CHOOSE i \in 1..Len(members_data) :
                         /\ members_data[i].user = u
                         /\ \A j \in 1..(i - 1) : members_data[j].user # u].role
    ELSE NULL

\* a create that stores the members as sent and never adds the creator
ProjectCreatedAsSent(r, key, owner, members_data) ==
    [key |-> key, owner |-> owner, created_by |-> r,
     members |-> [i \in 1..Len(members_data) |-> members_data[i]]]

\* ProjectSerializer.create, serializers.py 121-144, with created_by from
\* perform_create (views.py 253-257): the members sent, then the creator as
\* admin unless the members sent name the creator
ProjectCreated(r, key, owner, members_data) ==
    LET sent == MembersAddAll(<<>>, members_data)
    IN [key |-> key, owner |-> owner, created_by |-> r,
        members |-> IF r \in MemberUsers(members_data)
                    THEN sent ELSE MembersAdd(sent, r, "admin")]

ProjectResponse(op, status, r, n) ==
    [Response(op, status, NULL) EXCEPT !.mail = r, !.tok = n]

\* POST projects/ , views.py 232-257
ProjectCreate(r, key, owner, members_data) ==
    /\ IF r = Anonymous
       THEN /\ resp' = ProjectResponse("project_create", 401, r, 0)
            /\ UNCHANGED projects
       ELSE IF ~IsOperationsLeadOrStaff(r, "POST")
       THEN /\ resp' = ProjectResponse("project_create", 403, r, 0)
            /\ UNCHANGED projects
       ELSE IF \/ ~ValidKey(key)
               \/ owner = Missing
               \/ \E p \in ProjectIds : projects[p].key = key
       THEN /\ resp' = ProjectResponse("project_create", 400, r, 0)
            /\ UNCHANGED projects
       ELSE IF RoleKeyError(members_data)
       THEN \* serializers.py 125-134: the KeyError leaves the atomic block, the
            \* Project row and the members added so far are rolled back
            /\ resp' = ProjectResponse("project_create", 500, r, 0)
            /\ UNCHANGED projects
       ELSE /\ Len(projects) < MaxProjects
            /\ projects' = Append(projects,
                                  ProjectCreated(r, key, owner, members_data))
            /\ resp' = [ProjectResponse("project_create", 201, r,
                                        Len(projects) + 1)
                          EXCEPT !.typ = SubmittedRole(members_data, r)]
    /\ UNCHANGED <<authvars, taskvars, now, issued, blacklisted>>

\* ProjectViewSet.get_queryset, views.py 259-272
ProjectQueryset(r) ==
    IF r \in StaffUsers \/ ProfileRole(r) = "operations_lead"
    THEN ProjectIds
    ELSE {p \in ProjectIds : r \in MemberUsers(projects[p].members)}

\* GET projects/
ListProjects(r) ==
    /\ IF r = Anonymous
       THEN resp' = ProjectResponse("project_list", 401, r, 0)
       ELSE IF ~IsOperationsLeadOrStaff(r, "GET")
       THEN resp' = ProjectResponse("project_list", 403, r, 0)
       ELSE resp' = ProjectResponse("project_list", 200, r,
                                    Cardinality(ProjectQueryset(r)))
    /\ UNCHANGED <<authvars, taskvars, apivars, now>>

\* GET projects/<p>/
RetrieveProject(r, p) ==
    /\ IF r = Anonymous
       THEN resp' = ProjectResponse("project_retrieve", 401, r, p)
       ELSE IF ~IsOperationsLeadOrStaff(r, "GET")
       THEN resp' = ProjectResponse("project_retrieve", 403, r, p)
       ELSE IF p \notin ProjectQueryset(r)
       THEN resp' = ProjectResponse("project_retrieve", 404, r, p)
       ELSE resp' = ProjectResponse("project_retrieve", 200, r, p)
    /\ UNCHANGED <<authvars, taskvars, apivars, now>>

\* whether views.py binds the name transaction: its imports (lines 1-19) do
\* not, so line 297 raises NameError
TransactionImported == FALSE

\* views.py 283-287: the requester has a ProjectMember row with role admin on
\* project p
IsProjectAdmin(r, p) ==
    \E i \in 1..Len(projects[p].members) :
       /\ projects[p].members[i].user = r
       /\ projects[p].members[i].role = "admin"

\* POST projects/<p>/add-members/ , views.py 274-309; valid says whether
\* ProjectMemberSerializer(many=True) accepts the payload
AddMembers(r, p, valid, members_data) ==
    LET sent == IF valid THEN "valid" ELSE "invalid"
        Answer(status) == [ProjectResponse("add_members", status, r, p)
                             EXCEPT !.detail = sent]
    IN
    /\ IF r = Anonymous
       THEN /\ resp' = Answer(401)
            /\ UNCHANGED projects
       ELSE IF ~IsOperationsLeadOrStaff(r, "POST")
       THEN /\ resp' = Answer(403)
            /\ UNCHANGED projects
       ELSE IF p \notin ProjectQueryset(r)
       THEN /\ resp' = Answer(404)
            /\ UNCHANGED projects
       ELSE IF ~IsProjectAdmin(r, p) /\ r \notin StaffUsers
       THEN /\ resp' = Answer(403)
            /\ UNCHANGED projects
       ELSE IF ~valid
       THEN /\ resp' = Answer(400)
            /\ UNCHANGED projects
       ELSE IF ~TransactionImported \/ RoleKeyError(members_data)
       THEN /\ resp' = Answer(500)
            /\ UNCHANGED projects
       ELSE /\ projects' = [projects EXCEPT ![p].members =
                                MembersAddAll(@, members_data)]
            /\ resp' = Answer(201)
    /\ UNCHANGED <<authvars, taskvars, now, issued, blacklisted>>

ProjectTargets == 1..MaxProjects

NextProject ==
    \/ \E r \in Requesters, key \in KeyInputs, owner \in OwnerInputs,
          members_data \in MembersInputs :
          ProjectCreate(r, key, owner, members_data)
    \/ \E r \in Requesters : ListProjects(r)
    \/ \E r \in Requesters, p \in ProjectTargets : RetrieveProject(r, p)
    \/ \E r \in Requesters, p \in ProjectTargets, valid \in BOOLEAN,
          members_data \in MembersInputs : AddMembers(r, p, valid, members_data)

SpecProject == Init /\ [][NextProject]_vars

----------------------------------------------------------------------------
(* Steps of POST /auth/magic/verify, read off a transition *)

\* worker w accepts a verify request in this step and its token row passes
\* the checks
VerifyAdmitted(w) == reqs[w].pc = "idle" /\ reqs'[w].op = "verify"

\* a verify request is answered with HTTP 400 in this step
VerifyRejected == resp'.op = "verify" /\ resp'.status = 400

\* a verify request is answered with the JWTs in this step
VerifySucceeded == resp'.op = "verify" /\ resp'.status = 200

\* C1: a magic token is single-use. Once a verify of a token has succeeded, no
\* verify request made afterwards with that token is let through the checks:
\* it is answered 400 in the step that accepts it, and that step signs no JWT
\* and writes nothing. Requests of every other kind run in between.
C1_SingleUse ==
    [][ /\ \A w \in Workers :
             VerifyAdmitted(w) => verify_ok[reqs'[w].tok] = 0
        /\ VerifyRejected => UNCHANGED <<jwts, users, magic_tokens>>
      ]_vars

\* a verify of a token that already succeeded once has just been refused
C1_Witness ==
    /\ resp.op = "verify" /\ resp.status = 400
    /\ resp.detail = "Magic link has already been used"
    /\ TokenByValue(resp.tok) # 0
    /\ verify_ok[TokenByValue(resp.tok)] >= 1

\* C2: a token is stored with an expiry 15 minutes after the request; a verify
\* of a token whose expiry is in the past, or of a token that is not in the
\* table, is answered 400, signs no JWT and leaves magic_tokens (the used
\* flags) and users (email_verified) as they were.
C2_OnlyBeforeExpiry ==
    [][ /\ Len(magic_tokens') > Len(magic_tokens) =>
             /\ magic_tokens'[Len(magic_tokens')].expires_at = now + 15
             /\ ~magic_tokens'[Len(magic_tokens')].used
        /\ \A w \in Workers :
             VerifyAdmitted(w) =>
                /\ reqs'[w].tok \in TokenIds
                /\ magic_tokens[reqs'[w].tok].expires_at >= now
        /\ VerifyRejected => UNCHANGED <<jwts, users, magic_tokens>>
      ]_vars

\* a verify of an unused token has just been refused because it has expired
C2_Witness ==
    /\ resp.op = "verify" /\ resp.status = 400
    /\ resp.detail = "Magic link has expired"
    /\ TokenByValue(resp.tok) # 0
    /\ ~magic_tokens[TokenByValue(resp.tok)].used
    /\ magic_tokens[TokenByValue(resp.tok)].expires_at < now

\* C3: of the concurrent verify requests carrying one unused, unexpired token,
\* at most one succeeds.
C3_AtMostOneVerifySucceeds == \A t \in TokenIds : verify_ok[t] <= 1

----------------------------------------------------------------------------
(* Steps of GET /auth/google/callback, read off a transition *)

\* worker w finishes a Google callback in this step
GoogleFinished(w) == reqs[w].op = "google" /\ reqs'[w].pc = "idle"

\* the user a magic-link request for the address email finds or creates: the
\* request stores and looks up the address in lower case
MagicLinkUserFor(email) == UserByEmail(LowerOf(email))

\* C5: email is the join key. When a Google callback carries an address for
\* which a magic-link request has created a user, and no user has the Google
\* id, the callback links the Google id to that user, signs the JWTs for that
\* user and adds no row to users.
C5_GoogleJoinsMagicLinkUser ==
    [][ \A w \in Workers :
          LET r == reqs[w]
              u == MagicLinkUserFor(r.email)
          IN (/\ GoogleFinished(w)
              /\ resp'.sub # 0
              /\ u # 0
              /\ users[u].google_id = NULL
              /\ UserByGoogleId(r.gsub) = 0)
             => /\ Len(users') = Len(users)
                /\ users'[u].google_id = r.gsub
                /\ resp'.sub = u
      ]_vars

\* a Google callback has just linked its Google id to the user a magic-link
\* request created
C5_Witness ==
    /\ resp.op = "google" /\ resp.detail = "g_link"
    /\ resp.sub \in UserIds
    /\ users[resp.sub].google_id # NULL
    /\ \E t \in TokenIds : magic_tokens[t].user_id = resp.sub

\* C6: no two rows of users have the same email, under every interleaving of
\* magic-link requests and Google callbacks; a row is added only when no row
\* has its email.
C6_EmailUnique ==
    [][ /\ \A i, j \in 1..Len(users') :
             users'[i].email = users'[j].email => i = j
        /\ Len(users') > Len(users) =>
             /\ Len(users') = Len(users) + 1
             /\ \A i \in UserIds : users[i].email # users'[Len(users')].email
      ]_vars

\* two requests found no user for one address, and the INSERT of the second
\* was refused
C6_Witness ==
    /\ resp.detail \in {"IntegrityError", "Authentication failed"}
    /\ Len(users) >= 1

\* C8: the type claim is enforced. A refresh token presented as a bearer
\* credential is answered 401, and 401 "Invalid token type" when it is signed
\* and has not expired; an access token presented to the refresh endpoint is
\* answered 401 and no JWT is signed; only type access authenticates and only
\* type refresh refreshes.
C8_TokenTypeEnforced ==
    /\ (resp.op = "me" /\ resp.typ = "refresh") =>
          /\ resp.status = 401
          /\ resp.detail \in {"Invalid token type", "Invalid token", "Token has expired"}
    /\ (resp.op = "refresh" /\ resp.typ = "access") =>
          /\ resp.status = 401 /\ resp.sub = 0
    /\ (resp.op = "me" /\ resp.status = 200) => resp.typ = "access"
    /\ (resp.op = "refresh" /\ resp.status = 200) => resp.typ = "refresh"

\* a refresh token the service signed has just been refused as a bearer
\* credential
C8_Witness ==
    /\ resp.op = "me" /\ resp.typ = "refresh"
    /\ resp.status = 401 /\ resp.detail = "Invalid token type"

\* C9: a successful verify marks the token used, sets email_verified of the
\* user the token belongs to, and signs JWTs whose subject is that user's id
\* and no other; the token belongs to the user whose address the link was
\* mailed to, and never changes owner.
C9_VerifyAuthenticatesOwner ==
    [][ /\ VerifySucceeded =>
             LET t == TokenByValue(resp'.tok)
                 owner == magic_tokens[t].user_id
             IN /\ magic_tokens'[t].used
                /\ users'[owner].email_verified
                /\ resp'.sub = owner
                /\ \A j \in jwts' \ jwts : j.sub = owner
                /\ \E j \in jwts' : j.sub = owner /\ j.type = "access"
                /\ \E j \in jwts' : j.sub = owner /\ j.type = "refresh"
        /\ \A t \in TokenIds : magic_tokens'[t].user_id = magic_tokens[t].user_id
        /\ (resp'.op = "request" /\ resp'.mail # NULL) =>
             users'[magic_tokens'[resp'.tok].user_id].email = resp'.mail
      ]_vars

\* a verify has just succeeded for a token of a user other than the first
C9_Witness ==
    /\ resp.op = "verify" /\ resp.status = 200
    /\ resp.sub > 1
    /\ magic_tokens[TokenByValue(resp.tok)].used
    /\ users[resp.sub].email_verified

\* the unused tokens of user u
UnusedTokens(u) ==
    {t \in TokenIds : magic_tokens[t].user_id = u /\ ~magic_tokens[t].used}

\* the token most recently issued to user u
LatestToken(u) ==
    LET S == {t \in TokenIds : magic_tokens[t].user_id = u}
    IN CHOOSE t \in S : \A x \in S : x <= t

\* C10: in a sequential history, when a magic-link request stores its new
\* token every token issued earlier to that user is marked used; a user has at
\* most one unused token, and only the token most recently issued to a user
\* passes the checks of verify.
C10_NewLinkInvalidatesOld ==
    [][ /\ Len(magic_tokens') > Len(magic_tokens) =>
             \A t \in TokenIds :
                magic_tokens[t].user_id = magic_tokens'[Len(magic_tokens')].user_id
                   => magic_tokens'[t].used
        /\ \A u \in 1..Len(users') :
             Cardinality({t \in 1..Len(magic_tokens') :
                magic_tokens'[t].user_id = u /\ ~magic_tokens'[t].used}) <= 1
        /\ \A w \in Workers :
             VerifyAdmitted(w) =>
                reqs'[w].tok = LatestToken(magic_tokens[reqs'[w].tok].user_id)
      ]_vars

\* a user holds two tokens, the older one invalidated and the newer one unused
C10_Witness ==
    \E u \in UserIds :
        /\ Cardinality({t \in TokenIds : magic_tokens[t].user_id = u}) >= 2
        /\ UnusedTokens(u) = {LatestToken(u)}

----------------------------------------------------------------------------
(* Task assignments and completion timestamps *)

Leads(t) == {i \in 1..Len(assignments[t]) : assignments[t][i].is_lead}

\* C4: in every state reachable by assign, unassign and set-lead requests
\* (assign with is_lead = true and re-assignment of an assigned user
\* included), a task has at most one TaskAssignment with is_lead = True.
C4_AtMostOneLead ==
    \A t \in TaskIds : Cardinality(Leads(t)) <= 1

\* C7: after every save of a task (creation, TaskSerializer.update, the
\* change-status action) completed_at is non-null exactly when the status is
\* 'done': moving to 'done' sets it, moving away from 'done' clears it.
C7_CompletedAtSynced ==
    \A t \in TaskIds : (tasks[t].completed_at # None) <=> (tasks[t].status = DONE)

\* C7 witness: change-status has moved a task that was 'done', and so had a
\* completion timestamp, to another status, and the timestamp is cleared.
C7_Witness ==
    /\ resp.op = "change_status"
    /\ resp.status = 200
    /\ resp.typ = DONE
    /\ tasks[resp.tok].status # DONE
    /\ tasks[resp.tok].completed_at = None

----------------------------------------------------------------------------
(* Magic-link requests for unknown and for deactivated accounts *)

\* a worker has taken up a magic-link request in this step
RequestAdmitted(w) == IsIdle(w) /\ reqs'[w].op = "request"

\* C11: request_magic_link for an email with no account creates a new active
\* user with email_verified False; for the email of a deactivated account it
\* answers 403, stores no magic token, sends no email and leaves the user's
\* tokens as they were.
C11_RequestForNewOrDeactivated ==
    [][ /\ \A w \in Workers :
            /\ (RequestAdmitted(w) /\ reqs'[w].pc = "create") =>
                  UserByEmail(reqs'[w].email) = 0
            /\ (RequestAdmitted(w) /\ reqs'[w].pc = "invalidate") =>
                  /\ reqs'[w].uid = UserByEmail(reqs'[w].email)
                  /\ users[reqs'[w].uid].is_active
            /\ (reqs[w].op = "request" /\ reqs[w].pc = "create"
                  /\ reqs'[w].pc = "invalidate") =>
                  /\ users' = Append(users,
                        [email |-> reqs[w].email, google_id |-> NULL,
                         is_active |-> TRUE, email_verified |-> FALSE])
                  /\ reqs'[w].uid = Len(users')
        /\ (resp'.op = "request" /\ resp'.status = 403) =>
              /\ ~users[resp'.sub].is_active
              /\ resp'.mail = NULL
              /\ UNCHANGED <<users, magic_tokens, reqs, jwts>>
      ]_vars

\* C11 witness: a request for the address of a deactivated account, which
\* holds a magic token, has been answered 403.
C11_Witness ==
    /\ resp.op = "request"
    /\ resp.status = 403
    /\ \E i \in TokenIds : magic_tokens[i].user_id = resp.sub /\ ~magic_tokens[i].used

----------------------------------------------------------------------------
(* Who may change, delete and list tasks *)

\* C12: PUT/PATCH and DELETE of a task succeed only for the task's creator, a
\* user assigned to it, or a staff user; any other authenticated user gets
\* 403 and the task is unchanged; the creator and an assignee get 200 / 204.
C12_UpdateDeleteByCreatorAssigneeOrStaff ==
    [][ (resp'.op \in {"partial_update", "destroy"} /\ resp'.mail # Anonymous
           /\ resp'.tok \in TaskIds) =>
          LET r == resp'.mail
              t == resp'.tok
              own == r = tasks[t].created_by \/ r \in AssigneesOf(t)
          IN /\ resp'.status \in {200, 204} => (own \/ r \in StaffUsers)
             /\ (~own /\ r \notin StaffUsers) =>
                   (resp'.status = 403 /\ UNCHANGED taskvars)
             /\ own => resp'.status \in {200, 204}
      ]_vars

\* C13: listing a project's tasks as an authenticated non-staff user who is
\* not a member of the project is answered 403; as a member it is answered 200.
C13_ListOnlyForMembers ==
    resp.op = "list" =>
        /\ (resp.mail \in DjangoUsers \ (StaffUsers \cup ProjectMembers)) =>
              resp.status = 403
        /\ resp.mail \in ProjectMembers => resp.status = 200

----------------------------------------------------------------------------
(* Logout *)

\* C14: once a logout with refresh token R has been answered 205, every later
\* token-refresh request presenting R is answered 401; a logout with a
\* missing or invalid token is answered 400 and blacklists nothing.
C14_LogoutBlacklistsRefreshToken ==
    [][ /\ (resp'.op = "logout" /\ resp'.status = 205) => resp'.tok \in blacklisted'
        /\ blacklisted \subseteq blacklisted'
        /\ (resp'.op = "token_refresh" /\ resp'.tok \in blacklisted) =>
              resp'.status = 401
        /\ (resp'.op = "logout" /\ resp'.tok \notin 1..issued) =>
              (resp'.status = 400 /\ blacklisted' = blacklisted)
        /\ (resp'.op = "logout" /\ resp'.status # 205) => blacklisted' = blacklisted
      ]_vars

\* C14 witness: a refresh with a token that a logout blacklisted, and that no
\* rotation has replaced, has been answered 401.
C14_Witness ==
    /\ resp.op = "token_refresh"
    /\ resp.status = 401
    /\ resp.tok \in blacklisted
    /\ issued = 1

----------------------------------------------------------------------------
(* Assign, unassign and set-lead *)

\* the assignees and the lead rows of task t after the step
AssigneesAfter(t) == {assignments'[t][i].assignee : i \in 1..Len(assignments'[t])}

LeadsAfter(t) == {i \in 1..Len(assignments'[t]) : assignments'[t][i].is_lead}

\* the request just answered was sent by a requester who can see the task
TaskRequestSeen(op) ==
    /\ resp'.op = op
    /\ resp'.mail # Anonymous
    /\ Visible(resp'.mail, resp'.tok)

\* C15: after a successful assign naming user U on task T, U is an assignee
\* of T; assigning a user who is already assigned creates no second
\* assignment for the same (task, user) pair.
C15_AssignAddsOneAssignment ==
    [][ /\ (resp'.op = "assign" /\ resp'.status = 200) =>
              LET t == resp'.tok
                  u == resp'.user
              IN /\ Cardinality({i \in 1..Len(assignments'[t]) :
                                   assignments'[t][i].assignee = u}) = 1
                 /\ u \in AssigneesOf(t) =>
                       Len(assignments'[t]) = Len(assignments[t])
                 /\ u \notin AssigneesOf(t) =>
                       Len(assignments'[t]) = Len(assignments[t]) + 1
        /\ \A t \in TaskIds :
              Cardinality(AssigneesAfter(t)) = Len(assignments'[t])
      ]_vars

\* C15 witness: a user who was already assigned (the first row, with another
\* user assigned after) has been assigned again, and the task still has two
\* assignments.
C15_Witness ==
    /\ resp.op = "assign"
    /\ resp.status = 200
    /\ Len(assignments[resp.tok]) = 2
    /\ assignments[resp.tok][1].assignee = resp.user

\* C17: the first assignment made on a task without assignees becomes the
\* lead, whatever is_lead the request carried.
C17_FirstAssignmentIsLead ==
    [][ (resp'.op = "assign" /\ resp'.status = 200
           /\ assignments[resp'.tok] = <<>>) =>
          assignments'[resp'.tok] =
              <<[assignee |-> resp'.user, is_lead |-> TRUE]>>
      ]_vars

\* C17 witness: an assign sent with is_lead false has left the task with a
\* single assignment, which is the lead.
C17_Witness ==
    /\ resp.op = "assign"
    /\ resp.status = 200
    /\ resp.detail = "not_lead"
    /\ assignments[resp.tok] = <<[assignee |-> resp.user, is_lead |-> TRUE]>>

C19_SetLeadMakesOneLead ==
    [][ (resp'.op = "set_lead" /\ resp'.status = 200) =>
          LET t == resp'.tok
              u == resp'.user
          IN /\ u \in AssigneesOf(t)
             /\ Len(assignments'[t]) = Len(assignments[t])
             /\ \A i \in 1..Len(assignments[t]) :
                   /\ assignments'[t][i].assignee = assignments[t][i].assignee
                   /\ assignments'[t][i].is_lead <=> (assignments[t][i].assignee = u)
      ]_vars

\* C19 witness: set-lead has named the user of the second assignment of a
\* task with two assignees, who is now the only lead.
C19_Witness ==
    /\ resp.op = "set_lead"
    /\ resp.status = 200
    /\ Len(assignments[resp.tok]) = 2
    /\ assignments[resp.tok][2].assignee = resp.user
    /\ Leads(resp.tok) = {2}

MayCreateProjects(r) == r \in StaffUsers \/ ProfileRole(r) = "operations_lead"

\* C16: a project create succeeds only for staff and for users whose profile
\* role is operations_lead; every other authenticated user is answered 403
\* and no project is created; list and retrieve are not refused to any
\* authenticated user.
C16_CreateGatedByRole ==
    [][ /\ resp'.op = "project_create" =>
              /\ resp'.status = 201 => MayCreateProjects(resp'.mail)
              /\ (resp'.mail # Anonymous /\ ~MayCreateProjects(resp'.mail)) =>
                    resp'.status = 403
              /\ resp'.status # 201 => UNCHANGED projects
        /\ projects' # projects =>
              /\ resp'.op = "project_create" /\ resp'.status = 201
              /\ Len(projects') = Len(projects) + 1
              /\ MayCreateProjects(projects'[Len(projects')].created_by)
        /\ (resp'.op = "project_list" /\ resp'.mail # Anonymous) =>
              resp'.status = 200
        /\ (resp'.op = "project_retrieve" /\ resp'.mail # Anonymous) =>
              resp'.status \in {200, 404}
      ]_vars

\* C16 witness: with a project created by the operations lead in place, a
\* create by a user with another role has been refused with 403.
C16_Witness ==
    /\ resp.op = "project_create"
    /\ resp.status = 403
    /\ ProfileRole(resp.mail) = "operations_manager"
    /\ \E p \in ProjectIds : projects[p].created_by = "ann"

\* C21: a change-status request that reaches the handler with a missing
\* status or with a value outside TaskStatus is answered 400 and leaves the
\* task's status and completed_at unchanged; with a valid value it is
\* answered 200 and the task's status is that value.
C21_ChangeStatusValidates ==
    [][ (resp'.op = "change_status" /\ resp'.status \notin {401, 404}) =>
          LET t == resp'.tok
              sent == resp'.detail
          IN IF sent \in TaskStatus
             THEN /\ resp'.status = 200
                  /\ tasks'[t].status = sent
             ELSE /\ resp'.status = 400
                  /\ tasks'[t] = tasks[t]
      ]_vars

RoleIn(rows, u) == {rows[i].role : i \in {j \in 1..Len(rows) : rows[j].user = u}}

\* C22: after a project is created through the API its creator is a member of
\* it, as admin when the members sent did not name the creator and with the
\* role sent otherwise; a create that is not answered 201 leaves no project
\* and no membership behind, and a creator stays a member.
C22_CreatorIsMember ==
    [][ /\ (resp'.op = "project_create" /\ resp'.status = 201) =>
              LET p == resp'.tok
                  creator == resp'.mail
              IN /\ projects' = Append(projects, projects'[p])
                 /\ projects'[p].created_by = creator
                 /\ Cardinality({i \in 1..Len(projects'[p].members) :
                                   projects'[p].members[i].user = creator}) = 1
                 /\ RoleIn(projects'[p].members, creator) =
                       {IF resp'.typ = NULL THEN "admin" ELSE resp'.typ}
        /\ (resp'.op = "project_create" /\ resp'.status # 201) =>
              UNCHANGED projects
        /\ \A p \in 1..Len(projects') :
              projects'[p].created_by \in MemberUsers(projects'[p].members)
      ]_vars

\* C22 witness: a project has been created by a user whom the members sent
\* named with role member, and who is a member and not an admin of it.
C22_Witness ==
    /\ resp.op = "project_create"
    /\ resp.status = 201
    /\ resp.typ = "member"
    /\ RoleIn(projects[resp.tok].members, resp.mail) = {"member"}

\* C23: add-members changes a project's membership only when the requester
\* is an admin member of the project or a staff user; every other
\* authenticated requester is answered 403, and an invalid payload of an
\* admin member or staff user is answered 400, the membership unchanged in
\* both cases.
C23_AddMembersByAdminOrStaff ==
    [][ (resp'.op = "add_members" /\ resp'.mail # Anonymous
           /\ resp'.tok \in ProjectIds) =>
          LET r == resp'.mail
              p == resp'.tok
              permitted == IsProjectAdmin(r, p) \/ r \in StaffUsers
          IN /\ projects' # projects => permitted
             /\ ~permitted => (resp'.status = 403 /\ UNCHANGED projects)
             /\ (permitted /\ resp'.detail = "invalid") =>
                   (resp'.status = 400 /\ UNCHANGED projects)
      ]_vars

====
